---- MODULE Spec2Model ----
(***************************************************************************)
(* Account registry with adoption leases (gologin_api.py).                 *)
(*                                                                         *)
(* The persisted document gologin_accounts.json is the variable file: a    *)
(* function from the account names present to their records.  A record is  *)
(* a function from JSON keys to values, so a key that is absent from a     *)
(* record is absent from its DOMAIN.  Time is counted in minutes.          *)
(*                                                                         *)
(* Spec      : every HTTP handler runs to completion as one action.        *)
(* SpecGrant : the same for one account, recording who was granted a lease.*)
(* SpecConc  : handlers run as processes whose file reads and file writes  *)
(*             interleave.                                                 *)
(***************************************************************************)
EXTENDS Integers, Sequences, FiniteSets, TLC

\* the field names of the records below, in the order their constructors list them
Keys ==
    [pc |-> 0, op |-> 0, code |-> 0, status |-> 0, account_name |-> 0, action |-> 0,
     token |-> 0, profile_ids |-> 0, profiles |-> 0, adopted |-> 0, adopted_by |-> 0,
     adopted_at |-> 0, message |-> 0, account |-> 0, names |-> 0, upstream |-> 0,
     stage |-> 0, write |-> 0, accounts |-> 0, found |-> 0, ok |-> 0,
     file |-> 0, resp |-> 0, changed |-> 0]

VARIABLES
    file,       \* the persisted account store
    now,        \* the wall clock, in minutes
    req,        \* the request just handled in one piece, with the store it found
    resp,       \* the response to that request
    granted,    \* granted[a][h]: time of h's last successful claim of a that h has not released
    standing,   \* standing[a][h]: the same, voided by any release or upsert of a
    procs,      \* the requests in flight, one per worker
    started,    \* number of requests the workers have taken up
    upserted,   \* names whose add_account request has completed
    bytes       \* length of the text in the store's file

vars == <<file, now, req, resp, granted, standing, procs, started, upserted, bytes>>

(* ----------------------------- bounds --------------------------------- *)

MaxTime == 6

MaxRequests == 3

(* --------------------------- input domains ----------------------------- *)

Names == {"acct1", "acct2"}

Holders == {"vps-1", "vps-2"}

Tokens == {"tok1", "tok2"}

ProfileLists == {<<>>, <<"p1">>}

Procs == {1, 2}

\* Python's None / JSON null, and a key that the request body lacks.
None == "None"

\* values of "adopted_by" in a request body: a holder or absent
VpsInputs == Holders \cup {None}

Actions == {"claim", "release"}

(* ------------------------- program constants --------------------------- *)

\* unlock_timeout = timedelta(minutes=5)
UnlockTimeout == 5

(* --------------------------- pure helpers ------------------------------ *)

\* datetime.isoformat(): the timestamp as a string
isoformat(t) == ToString(t)

\* datetime.fromisoformat() raises ValueError on anything that is not a timestamp
IsIsoFormat(s) == \E t \in 0..MaxTime : isoformat(t) = s

fromisoformat(s) == CHOOSE t \in 0..MaxTime : isoformat(t) = s

\* Python truthiness of a string-or-None value
Truthy(v) == v # None /\ v # ""

\* dict.get(key): None when the key is absent
Get(a, k) == IF k \in DOMAIN a THEN a[k] ELSE None

\* d[key] = value on a dict
Put(d, k, v) == [x \in DOMAIN d \cup {k} |-> IF x = k THEN v ELSE d[x]]

\* the account store of a missing or unreadable file
EmptyStore == [x \in {} |-> None]

\* sum of f over the set S of its arguments
RECURSIVE Sum(_, _)
Sum(f, S) ==
    IF S = {} THEN 0
    ELSE LET x == CHOOSE y \in S : TRUE IN f[x] + Sum(f, S \ {x})

\* json.dump(..., indent=4) of a string-or-None value: "..." or null
TextLen(v) == IF v = None THEN 4 ELSE Len(v) + 2

\* of a list of strings: [] when empty, else one item per line at indent 12
ListLen(l) ==
    IF l = <<>> THEN 2
    ELSE 1 + Sum([i \in DOMAIN l |-> 13 + TextLen(l[i])], DOMAIN l)
           + (Len(l) - 1) + 9 + 1

\* of the value under key k of a record: true / false for "adopted", and for
\* "adopted_at" the 26 characters of datetime.now().isoformat() in quotes
ValueLen(k, v) ==
    CASE k = "profiles" -> ListLen(v)
      [] k = "adopted" -> IF v THEN 4 ELSE 5
      [] k = "adopted_at" -> IF v # None /\ IsIsoFormat(v) THEN 28 ELSE TextLen(v)
      [] OTHER -> TextLen(v)

\* of a record: one "key": value per line at indent 8
RecordLen(a) ==
    IF DOMAIN a = {} THEN 2
    ELSE 1 + Sum([k \in DOMAIN a |-> 9 + Len(k) + 4 + ValueLen(k, a[k])], DOMAIN a)
           + (Cardinality(DOMAIN a) - 1) + 5 + 1

\* of the whole store: one "name": record per line at indent 4
StoreLen(m) ==
    IF DOMAIN m = {} THEN 2
    ELSE 1 + Sum([n \in DOMAIN m |-> 5 + Len(n) + 4 + RecordLen(m[n])], DOMAIN m)
           + (Cardinality(DOMAIN m) - 1) + 1 + 1

\* the three adoption fields of a record
Adoption(a) == <<Get(a, "adopted"), Get(a, "adopted_by"), Get(a, "adopted_at")>>

Unleased(a) == Adoption(a) = <<FALSE, None, None>>

\* a.get("adopted") is truthy
IsAdopted(a) == "adopted" \in DOMAIN a /\ a["adopted"] = TRUE

(* ------------------------- DataManager --------------------------------- *)

\* variant: the third key is not backfilled
Backfill_SkipsAdoptedAt(a) ==
    [k \in DOMAIN a \cup {"adopted", "adopted_by"} |->
        IF k \in DOMAIN a THEN a[k]
        ELSE IF k = "adopted" THEN FALSE ELSE None]

\* lines 74-79: backfill of the adoption keys of one record
Backfill(a) ==
    [k \in DOMAIN a \cup {"adopted", "adopted_by", "adopted_at"} |->
        IF k \in DOMAIN a THEN a[k]
        ELSE IF k = "adopted" THEN FALSE ELSE None]

\* variant: a lease exactly as old as the timeout counts as stale
Stale_NonStrict(a, t) ==
    /\ IsAdopted(a)
    /\ Truthy(Get(a, "adopted_at"))
    /\ IsIsoFormat(a["adopted_at"])
    /\ t - fromisoformat(a["adopted_at"]) >= UnlockTimeout

\* variant: a lease whose timestamp is missing or does not parse counts as stale
Stale_UnusableIsStale(a, t) ==
    /\ IsAdopted(a)
    /\ \/ ~Truthy(Get(a, "adopted_at"))
       \/ ~IsIsoFormat(a["adopted_at"])
       \/ t - fromisoformat(a["adopted_at"]) > UnlockTimeout

\* lines 82-85: the record is adopted, its timestamp parses and is stale
Stale(a, t) ==
    /\ IsAdopted(a)
    /\ Truthy(Get(a, "adopted_at"))
    /\ IsIsoFormat(a["adopted_at"])
    /\ t - fromisoformat(a["adopted_at"]) > UnlockTimeout

\* variant: the auto-unlock forgets to clear the holder
Unlock_KeepsHolder(a) ==
    [k \in DOMAIN a |->
        IF k = "adopted" THEN FALSE
        ELSE IF k = "adopted_at" THEN None ELSE a[k]]

\* lines 90-92: auto-unlock
Unlock(a) ==
    [k \in DOMAIN a |->
        IF k = "adopted" THEN FALSE
        ELSE IF k \in {"adopted_by", "adopted_at"} THEN None ELSE a[k]]

\* lines 73-96: one pass of the loop body
ReconcileRecord(a, t) ==
    LET b == Backfill(a) IN IF Stale(b, t) THEN Unlock(b) ELSE b

\* lines 64-100 without the write: the mapping returned and the changed flag
Reconcile(read, t) ==
    LET accounts == [n \in DOMAIN read |-> ReconcileRecord(read[n], t)]
    IN  [accounts |-> accounts,
         changed  |-> \E n \in DOMAIN read :
                         \/ DOMAIN Backfill(read[n]) # DOMAIN read[n]
                         \/ Stale(Backfill(read[n]), t)]

\* lines 98-100: the mapping returned and the store left behind
Loaded(f, r) ==
    [accounts |-> r.accounts, file |-> IF r.changed THEN r.accounts ELSE f]

\* get_all_accounts run to completion on store f at time t
get_all_accounts(f, t) == Loaded(f, Reconcile(f, t))

\* variant: a claim by the holder already recorded keeps the old timestamp
SetAdoptionFields_KeepsStamp(a, adopted, adopted_by, t) ==
    [k \in DOMAIN a \cup {"adopted", "adopted_by", "adopted_at"} |->
        IF k = "adopted" THEN adopted
        ELSE IF k = "adopted_by" THEN (IF adopted THEN adopted_by ELSE None)
        ELSE IF k = "adopted_at"
             THEN (IF ~adopted THEN None
                   ELSE IF IsAdopted(a) /\ Get(a, "adopted_by") = adopted_by
                   THEN a["adopted_at"] ELSE isoformat(t))
        ELSE a[k]]

\* variant: a release leaves the holder in place
SetAdoptionFields_HolderSurvivesRelease(a, adopted, adopted_by, t) ==
    [k \in DOMAIN a \cup {"adopted", "adopted_by", "adopted_at"} |->
        IF k = "adopted" THEN adopted
        ELSE IF k = "adopted_by" THEN (IF adopted THEN adopted_by ELSE Get(a, "adopted_by"))
        ELSE IF k = "adopted_at" THEN (IF adopted THEN isoformat(t) ELSE None)
        ELSE a[k]]

\* variant: a holder already recorded is not overwritten by a claim
SetAdoptionFields_KeepsHolder(a, adopted, adopted_by, t) ==
    [k \in DOMAIN a \cup {"adopted", "adopted_by", "adopted_at"} |->
        IF k = "adopted" THEN adopted
        ELSE IF k = "adopted_by"
             THEN (IF ~adopted THEN None
                   ELSE IF IsAdopted(a) THEN Get(a, "adopted_by") ELSE adopted_by)
        ELSE IF k = "adopted_at" THEN (IF adopted THEN isoformat(t) ELSE None)
        ELSE a[k]]

\* variant: a release leaves the timestamp in place
SetAdoptionFields_StampSurvivesRelease(a, adopted, adopted_by, t) ==
    [k \in DOMAIN a \cup {"adopted", "adopted_by", "adopted_at"} |->
        IF k = "adopted" THEN adopted
        ELSE IF k = "adopted_by" THEN (IF adopted THEN adopted_by ELSE None)
        ELSE IF k = "adopted_at" THEN (IF adopted THEN isoformat(t) ELSE Get(a, "adopted_at"))
        ELSE a[k]]

\* lines 106-109: the record after set_adoption's three assignments
SetAdoptionFields(a, adopted, adopted_by, t) ==
    [k \in DOMAIN a \cup {"adopted", "adopted_by", "adopted_at"} |->
        IF k = "adopted" THEN adopted
        ELSE IF k = "adopted_by" THEN (IF adopted THEN adopted_by ELSE None)
        ELSE IF k = "adopted_at" THEN (IF adopted THEN isoformat(t) ELSE None)
        ELSE a[k]]

\* lines 104-111 on the mapping g that line 103 loaded: (ok, store left behind)
SetAdoptionOn(g, t, account_name, adopted, adopted_by) ==
    IF account_name \notin DOMAIN g.accounts
    THEN [ok |-> FALSE, file |-> g.file]
    ELSE [ok |-> TRUE,
          file |-> [g.accounts EXCEPT ![account_name] =
                       SetAdoptionFields(@, adopted, adopted_by, t)]]

\* set_adoption run to completion on store f at time t
set_adoption(f, t, account_name, adopted, adopted_by) ==
    SetAdoptionOn(get_all_accounts(f, t), t, account_name, adopted, adopted_by)

\* variant: the record as it was written before the adoption fields existed
NewAccount_WithoutAdoptionFields(token) ==
    [token |-> token, profiles |-> <<>>]

\* lines 116-123: the record written by save_account
NewAccount(token) ==
    [token |-> token, profiles |-> <<>>,
     adopted |-> FALSE, adopted_by |-> None, adopted_at |-> None]

\* save_account run to completion: the store left behind
save_account(f, t, account_name, token) ==
    Put(get_all_accounts(f, t).accounts, account_name, NewAccount(token))

\* variant: the record is built anew around the profile list, as save_account does
UpdateProfilesOn_RebuildsRecord(g, account_name, profile_ids) ==
    IF account_name \in DOMAIN g.accounts
    THEN [g.accounts EXCEPT ![account_name] =
             [token |-> Get(@, "token"), profiles |-> profile_ids,
              adopted |-> FALSE, adopted_by |-> None, adopted_at |-> None]]
    ELSE g.file

\* lines 130-135 on the mapping g that line 129 loaded: the store left behind
UpdateProfilesOn(g, account_name, profile_ids) ==
    IF account_name \in DOMAIN g.accounts
    THEN [g.accounts EXCEPT ![account_name] = Put(@, "profiles", profile_ids)]
    ELSE g.file

\* update_account_profiles run to completion on store f at time t
update_account_profiles(f, t, account_name, profile_ids) ==
    UpdateProfilesOn(get_all_accounts(f, t), account_name, profile_ids)

(* --------------------------- HTTP handlers ----------------------------- *)

\* a JSON response: HTTP code, the "status" field, the "account_name" and
\* "adopted_by" fields, the holder a conflict message names, the account
\* record returned, the account names returned
Response(code, status, account_name, adopted_by, message, account, names) ==
    [code |-> code, status |-> status, account_name |-> account_name,
     adopted_by |-> adopted_by, message |-> message, account |-> account, names |-> names]

Reply(code, status, account_name) == Response(code, status, account_name, None, None, {}, {})

\* variant: the holder comparison is missing
ClaimRefusal_NoConflict(acct, vps_id) ==
    IF ~Truthy(vps_id) THEN Reply(400, "error", None)
    ELSE Reply(0, "proceed", None)

\* variant: the holder comparison is inverted
ClaimRefusal_Inverted(acct, vps_id) ==
    IF ~Truthy(vps_id) THEN Reply(400, "error", None)
    ELSE IF IsAdopted(acct) /\ Get(acct, "adopted_by") = vps_id
    THEN Response(409, "conflict", None, None, Get(acct, "adopted_by"), {}, {})
    ELSE Reply(0, "proceed", None)

\* variant: any adopted record is refused, whoever asks
ClaimRefusal_AnyHolder(acct, vps_id) ==
    IF ~Truthy(vps_id) THEN Reply(400, "error", None)
    ELSE IF IsAdopted(acct)
    THEN Response(409, "conflict", None, None, Get(acct, "adopted_by"), {}, {})
    ELSE Reply(0, "proceed", None)

\* variant: the holder comparison comes before the test for a missing holder
ClaimRefusal_ConflictFirst(acct, vps_id) ==
    IF IsAdopted(acct) /\ Get(acct, "adopted_by") # vps_id
    THEN Response(409, "conflict", None, None, Get(acct, "adopted_by"), {}, {})
    ELSE IF ~Truthy(vps_id) THEN Reply(400, "error", None)
    ELSE Reply(0, "proceed", None)

\* lines 220-228 on the record loaded at line 216: the early return, if any
ClaimRefusal(acct, vps_id) ==
    IF ~Truthy(vps_id) THEN Reply(400, "error", None)
    ELSE IF IsAdopted(acct) /\ Get(acct, "adopted_by") # vps_id
    THEN Response(409, "conflict", None, None, Get(acct, "adopted_by"), {}, {})
    ELSE Reply(0, "proceed", None)

\* lines 229-232 and 235-238: the response after set_adoption returned ok
AdoptReply(ok, account_name, action, vps_id) ==
    IF ~ok THEN Reply(500, "error", None)
    ELSE IF action = "claim"
    THEN Response(200, "claimed", account_name, vps_id, None, {}, {})
    ELSE Reply(200, "released", account_name)

\* lines 229-232 and 235-238: set_adoption's outcome s turned into the result
AdoptDone(s, account_name, action, vps_id) ==
    [file |-> s.file, resp |-> AdoptReply(s.ok, account_name, action, vps_id)]

\* variant: only a claim looks the account up; a release of an unknown name
\* goes on to set_adoption
AdoptOn_LooksUpOnClaimOnly(g, t, account_name, action, vps_id) ==
    IF action = "claim" /\ account_name \notin DOMAIN g.accounts
    THEN [file |-> g.file, resp |-> Reply(404, "error", account_name)]
    ELSE IF action = "claim" /\ ClaimRefusal(g.accounts[account_name], vps_id).code # 0
    THEN [file |-> g.file, resp |-> ClaimRefusal(g.accounts[account_name], vps_id)]
    ELSE AdoptDone(set_adoption(g.file, t, account_name, action = "claim",
                                IF action = "claim" THEN vps_id ELSE None),
                   account_name, action, vps_id)

\* lines 216-238 on the mapping g that line 215 loaded
AdoptOn(g, t, account_name, action, vps_id) ==
    IF account_name \notin DOMAIN g.accounts
    THEN [file |-> g.file, resp |-> Reply(404, "error", account_name)]
    ELSE IF action = "claim" /\ ClaimRefusal(g.accounts[account_name], vps_id).code # 0
    THEN [file |-> g.file, resp |-> ClaimRefusal(g.accounts[account_name], vps_id)]
    ELSE AdoptDone(set_adoption(g.file, t, account_name, action = "claim",
                                IF action = "claim" THEN vps_id ELSE None),
                   account_name, action, vps_id)

\* adopt_account run to completion on store f at time t
adopt_account_result(f, t, account_name, action, vps_id) ==
    IF action \notin {"claim", "release"}
    THEN [file |-> f, resp |-> Reply(400, "error", None)]
    ELSE AdoptOn(get_all_accounts(f, t), t, account_name, action, vps_id)

\* the stored record of a name, as a set of at most one record
Stored(f, account_name) ==
    IF account_name \in DOMAIN f THEN {f[account_name]} ELSE {}

(* ------------------- handlers as single actions ------------------------- *)

\* a request as received: endpoint, account addressed, "action", "token" and
\* "adopted_by" of the body, the profile ids the provider returned, and the
\* store as it was when the request arrived
Request(op, account_name, action, token, profile_ids, adopted_by, f) ==
    [op |-> op, account_name |-> account_name, action |-> action, token |-> token,
     profile_ids |-> profile_ids, adopted_by |-> adopted_by, file |-> f]

NoRequest == Request("none", None, None, None, <<>>, None, EmptyStore)

NoResponse == Reply(0, "none", None)

NoGrant == -1

NoGrants == [n \in Names |-> [h \in Holders |-> NoGrant]]

\* a handler that runs in one piece leaves the file with the text of the store
\* it wrote, or as it was
Rewritten == bytes' = IF file' = file THEN bytes ELSE StoreLen(file')

\* the clock advances by d minutes between requests
Tick(d) ==
    /\ now + d <= MaxTime
    /\ now' = now + d
    /\ req' = NoRequest
    /\ resp' = NoResponse
    /\ UNCHANGED <<file, standing, procs, started, upserted, bytes>>

\* GET /accounts
list_accounts ==
    \E g \in {get_all_accounts(file, now)} :
    /\ file' = g.file
    /\ req' = Request("list_accounts", None, None, None, <<>>, None, file)
    /\ resp' = Response(200, "ok", None, None, None, {}, DOMAIN g.accounts)
    /\ UNCHANGED <<now, standing, procs, started, upserted>>
    /\ Rewritten

\* GET /accounts/<name>
get_account_details(account_name) ==
    \E g \in {get_all_accounts(file, now)} :
    /\ file' = g.file
    /\ req' = Request("get_account_details", account_name, None, None, <<>>, None, file)
    /\ resp' = IF account_name \in DOMAIN g.accounts
               THEN Response(200, "ok", None, None, None, {g.accounts[account_name]}, {})
               ELSE Reply(404, "error", account_name)
    /\ UNCHANGED <<now, standing, procs, started, upserted>>
    /\ Rewritten

\* POST /accounts/<name>/adopt
adopt_account(account_name, action, vps_id) ==
    \E r \in {adopt_account_result(file, now, account_name, action, vps_id)} :
    /\ file' = r.file
    /\ req' = Request("adopt_account", account_name, action, None, <<>>, vps_id, file)
    /\ resp' = r.resp
    /\ standing' =
          IF r.resp.code = 200 /\ action = "claim"
          THEN [standing EXCEPT ![account_name][vps_id] = now]
          ELSE IF r.resp.code = 200 /\ action = "release"
          THEN [standing EXCEPT ![account_name] = [h \in Holders |-> NoGrant]]
          ELSE standing
    /\ UNCHANGED <<now, procs, started, upserted>>
    /\ Rewritten

\* POST /accounts ; a field the body lacks is None
add_account(account_name, token) ==
    /\ IF account_name = None \/ token = None
       THEN /\ resp' = Reply(400, "error", None)
            /\ UNCHANGED <<file, upserted, standing>>
       ELSE /\ file' = save_account(file, now, account_name, token)
            /\ resp' = Reply(201, "success", account_name)
            /\ upserted' = upserted \cup {account_name}
            /\ standing' = [standing EXCEPT ![account_name] = [h \in Holders |-> NoGrant]]
    /\ req' = Request("add_account", account_name, None, token, <<>>, None, file)
    /\ UNCHANGED <<now, procs, started>>
    /\ Rewritten

\* POST /accounts/<name>/fetch-profiles ; upstream is the provider's answer
fetch_and_save_profiles(account_name, upstream, profile_ids) ==
    \E g \in {get_all_accounts(file, now)} :
    /\ IF account_name \notin DOMAIN g.accounts
       THEN file' = g.file /\ resp' = Reply(404, "error", account_name)
       ELSE IF upstream # 200
       THEN file' = g.file /\ resp' = Reply(upstream, "error", None)
       ELSE /\ file' = update_account_profiles(g.file, now, account_name, profile_ids)
            /\ resp' = Reply(200, "success", account_name)
    /\ req' = Request("fetch_and_save_profiles", account_name, None, None, profile_ids, None, file)
    /\ UNCHANGED <<now, standing, procs, started, upserted>>
    /\ Rewritten

\* GET /accounts/<name>/check-limit
check_account_limit(account_name, upstream, limit_reached) ==
    \E g \in {get_all_accounts(file, now)} :
    /\ file' = g.file
    /\ req' = Request("check_account_limit", account_name, None, None, <<>>, None, file)
    /\ resp' = IF account_name \notin DOMAIN g.accounts
               THEN Reply(404, "error", account_name)
               ELSE IF limit_reached THEN Reply(200, "limit_exceeded", account_name)
               ELSE IF upstream # 200 THEN Reply(upstream, "error", None)
               ELSE Reply(200, "ok", account_name)
    /\ UNCHANGED <<now, standing, procs, started, upserted>>
    /\ Rewritten

\* a worker: its request, its place in the handler (pc: idle, read, open,
\* dump, done), which load it is in (stage: outer = the handler's own
\* get_all_accounts, inner = the one inside the DataManager method), which write
\* it is in (sweep = line 99, save = the method's own), the mapping it holds,
\* the addressed record as the inner load found it, and its response
Worker(pc, op, account_name, action, token, profile_ids, adopted_by, upstream, stage) ==
    [pc |-> pc, op |-> op, account_name |-> account_name, action |-> action,
     token |-> token, profile_ids |-> profile_ids, adopted_by |-> adopted_by,
     upstream |-> upstream, stage |-> stage, write |-> "none",
     accounts |-> EmptyStore, found |-> {}, resp |-> NoResponse]

Idle == Worker("idle", "none", None, None, None, <<>>, None, 0, "none")

Init ==
    /\ file = EmptyStore
    /\ now = 0
    /\ req = NoRequest
    /\ resp = NoResponse
    /\ granted = NoGrants
    /\ standing = NoGrants
    /\ procs = [p \in Procs |-> Idle]
    /\ started = 0
    /\ upserted = {}
    /\ bytes = 0

Next ==
    \/ Tick(1) /\ UNCHANGED granted
    \/ list_accounts /\ UNCHANGED granted
    \/ \E n \in Names : get_account_details(n) /\ UNCHANGED granted
    \/ \E n \in Names, a \in Actions, v \in VpsInputs :
          adopt_account(n, a, v) /\ UNCHANGED granted
    \/ \E n \in Names : add_account(n, "tok1") /\ UNCHANGED granted

Spec == Init /\ [][Next]_vars

(* --------------- handlers as interleaved workers ------------------------ *)

\* the worker has its response; it drops the mapping it held
Done(w, r) ==
    [w EXCEPT !.pc = "done", !.resp = r, !.accounts = EmptyStore,
              !.write = "none", !.stage = "none"]

\* the worker goes on to the write at lines 110, 124 or 132 with the mapping m
Save(w, m, found) ==
    [w EXCEPT !.pc = "open", !.write = "save", !.accounts = m, !.found = found]

\* the worker enters the DataManager method, which loads again
Enter(w) == [w EXCEPT !.pc = "read", !.stage = "inner", !.accounts = EmptyStore]

\* the handler's code from the return of a get_all_accounts call, which gave
\* the mapping m, up to its next file access; t is the clock
AfterLoad(w, m, t) ==
    IF w.stage = "outer"
    THEN CASE w.op = "list_accounts" ->
                Done(w, Response(200, "ok", None, None, None, {}, DOMAIN m))
           [] w.op = "get_account_details" ->
                Done(w, IF w.account_name \in DOMAIN m
                        THEN Response(200, "ok", None, None, None, {m[w.account_name]}, {})
                        ELSE Reply(404, "error", w.account_name))
           [] w.op = "adopt_account" ->
                IF w.account_name \notin DOMAIN m
                THEN Done(w, Reply(404, "error", w.account_name))
                ELSE IF w.action = "claim"
                        /\ ClaimRefusal(m[w.account_name], w.adopted_by).code # 0
                THEN Done(w, ClaimRefusal(m[w.account_name], w.adopted_by))
                ELSE Enter(w)
           [] w.op = "fetch_and_save_profiles" ->
                IF w.account_name \notin DOMAIN m
                THEN Done(w, Reply(404, "error", w.account_name))
                ELSE IF w.upstream # 200 THEN Done(w, Reply(w.upstream, "error", None))
                ELSE Enter(w)
    ELSE CASE w.op = "adopt_account" ->
                IF SetAdoptionOn([accounts |-> m, file |-> m], t, w.account_name,
                                 w.action = "claim", w.adopted_by).ok
                THEN Save(w, SetAdoptionOn([accounts |-> m, file |-> m], t, w.account_name,
                                           w.action = "claim", w.adopted_by).file,
                          Stored(m, w.account_name))
                ELSE Done(w, AdoptReply(FALSE, w.account_name, w.action, w.adopted_by))
           [] w.op = "add_account" ->
                Save(w, Put(m, w.account_name, NewAccount(w.token)),
                     Stored(m, w.account_name))
           [] w.op = "fetch_and_save_profiles" ->
                IF w.account_name \in DOMAIN m
                THEN Save(w, UpdateProfilesOn([accounts |-> m, file |-> m],
                                              w.account_name, w.profile_ids),
                          Stored(m, w.account_name))
                ELSE Done(w, Reply(200, "success", w.account_name))

\* the response once the method's own write is done
AfterSave(w) ==
    CASE w.op = "adopt_account" ->
            Done(w, AdoptReply(TRUE, w.account_name, w.action, w.adopted_by))
      [] w.op = "add_account" -> Done(w, Reply(201, "success", w.account_name))
      [] w.op = "fetch_and_save_profiles" -> Done(w, Reply(200, "success", w.account_name))

\* a free worker takes up a request
Start(p, w) ==
    /\ procs[p].pc \in {"idle", "done"}
    /\ started < MaxRequests
    /\ started' = started + 1
    /\ procs' = [procs EXCEPT ![p] = w]
    /\ UNCHANGED <<file, now, req, resp, granted, standing, upserted, bytes>>

\* lines 66-96: read the file, then reconcile the mapping at the current time
Read(p) ==
    /\ procs[p].pc = "read"
    /\ \E r \in {Reconcile(file, now)} :
          procs' = [procs EXCEPT ![p] =
                      IF r.changed
                      THEN [@ EXCEPT !.pc = "open", !.write = "sweep", !.accounts = r.accounts]
                      ELSE AfterLoad(@, r.accounts, now)]
    /\ UNCHANGED <<file, now, req, resp, granted, standing, started, upserted, bytes>>

\* line 57: open(file, "w") truncates the file; until the dump a reader finds
\* no JSON in it, which read_json_file turns into the empty mapping
Open(p) ==
    /\ procs[p].pc = "open"
    /\ file' = EmptyStore
    /\ bytes' = 0
    /\ procs' = [procs EXCEPT ![p] = [@ EXCEPT !.pc = "dump"]]
    /\ UNCHANGED <<now, req, resp, granted, standing, started, upserted>>

\* line 58: json.dump writes the mapping's text from offset 0 when the file is
\* closed.  Text that another worker wrote since this one opened the file is
\* overwritten from the start and not cut: where it is the longer its tail
\* stays behind this text, and the file holds no valid JSON
Dump(p) ==
    /\ procs[p].pc = "dump"
    /\ IF StoreLen(procs[p].accounts) >= bytes
       THEN file' = procs[p].accounts /\ bytes' = StoreLen(procs[p].accounts)
       ELSE file' = EmptyStore /\ bytes' = bytes
    /\ procs' = [procs EXCEPT ![p] =
                  IF @.write = "sweep" THEN AfterLoad(@, @.accounts, now)
                  ELSE AfterSave(@)]
    /\ upserted' = IF procs[p].write = "save" /\ procs[p].op = "add_account"
                   THEN upserted \cup {procs[p].account_name} ELSE upserted
    /\ UNCHANGED <<now, req, resp, granted, standing, started>>

NextConc ==
    \/ \E p \in Procs : Read(p)
    \/ \E p \in Procs : Open(p)
    \/ \E p \in Procs : Dump(p)
    \/ \E p \in Procs, n \in Names :
          Start(p, Worker("read", "get_account_details", n, None, None, <<>>, None, 0, "outer"))
    \/ \E p \in Procs, n \in Names, a \in Actions, v \in VpsInputs :
          Start(p, Worker("read", "adopt_account", n, a, None, <<>>, v, 0, "outer"))
    \/ \E p \in Procs, n \in Names :
          Start(p, Worker("read", "add_account", n, None, "tok1", <<>>, None, 0, "inner"))
    \/ \E p \in Procs, n \in Names :
          Start(p, Worker("read", "fetch_and_save_profiles", n, None, None, <<"p1">>,
                          None, 200, "outer"))
    \/ Tick(UnlockTimeout + 1) /\ UNCHANGED granted

SpecConc == Init /\ [][NextConc]_vars

(* ------------- one worker whose writes may fail ------------------------ *)

\* lines 57-61: the write raises IOError, which write_json_file logs and
\* swallows, so the caller goes on as after a write.  Either open() raised and
\* the file is as it was, or open() had truncated the file and the dump or the
\* close raised: the file holds the first k characters of the text, no valid JSON
WriteFails(p, truncated, k) ==
    /\ procs[p].pc = "open"
    /\ k < StoreLen(procs[p].accounts)
    /\ IF truncated
       THEN file' = EmptyStore /\ bytes' = k
       ELSE UNCHANGED <<file, bytes>>
    /\ procs' = [procs EXCEPT ![p] =
                  IF @.write = "sweep" THEN AfterLoad(@, @.accounts, now)
                  ELSE AfterSave(@)]
    /\ upserted' = IF procs[p].write = "save" /\ procs[p].op = "add_account"
                   THEN upserted \cup {procs[p].account_name} ELSE upserted
    /\ UNCHANGED <<now, req, resp, granted, standing, started>>

NextFault ==
    \/ Read(1)
    \/ Open(1)
    \/ Dump(1)
    \/ \E truncated \in BOOLEAN, k \in {0, 1} : WriteFails(1, truncated, k)
    \/ \E n \in Names :
          Start(1, Worker("read", "get_account_details", n, None, None, <<>>, None, 0, "outer"))
    \/ \E n \in Names, a \in Actions, v \in VpsInputs :
          Start(1, Worker("read", "adopt_account", n, a, None, <<>>, v, 0, "outer"))
    \/ \E n \in Names :
          Start(1, Worker("read", "add_account", n, None, "tok1", <<>>, None, 0, "inner"))
    \/ \E n \in Names :
          Start(1, Worker("read", "fetch_and_save_profiles", n, None, None, <<"p1">>,
                          None, 200, "outer"))
    \/ Tick(UnlockTimeout + 1) /\ UNCHANGED granted

SpecFault == Init /\ [][NextFault]_vars

(* ------------- one account, with the record of grants ------------------ *)

\* the account whose grants are recorded
GrantNames == {"acct1"}

\* granted after the adopt request just answered: a successful claim by h is
\* recorded at the current time, a successful release carrying adopted_by = h
\* withdraws h's own grant
RecordGrant(account_name, action, vps_id) ==
    granted' =
        IF resp'.code = 200 /\ action = "claim"
        THEN [granted EXCEPT ![account_name][vps_id] = now]
        ELSE IF resp'.code = 200 /\ action = "release" /\ vps_id \in Holders
        THEN [granted EXCEPT ![account_name][vps_id] = NoGrant]
        ELSE granted

NextGrant ==
    \/ Tick(1) /\ UNCHANGED granted
    \/ list_accounts /\ UNCHANGED granted
    \/ \E n \in GrantNames : get_account_details(n) /\ UNCHANGED granted
    \/ \E n \in GrantNames, a \in Actions, v \in VpsInputs :
          adopt_account(n, a, v) /\ RecordGrant(n, a, v)
    \/ \E n \in GrantNames : add_account(n, "tok1") /\ UNCHANGED granted
    \/ \E n \in GrantNames :
          fetch_and_save_profiles(n, 200, <<"p1">>) /\ UNCHANGED granted

SpecGrant == Init /\ [][NextGrant]_vars

(* ======================= properties of Spec ============================ *)

\* the request just handled is claim(a, h)
ClaimBy(a, h) ==
    /\ req.op = "adopt_account" /\ req.account_name = a
    /\ req.action = "claim" /\ req.adopted_by = h

\* the request just handled is release(a), whatever adopted_by it carried
ReleaseOf(a) ==
    /\ req.op = "adopt_account" /\ req.account_name = a /\ req.action = "release"

\* store f has account a held by h
HeldIn(f, a, h) == a \in DOMAIN f /\ IsAdopted(f[a]) /\ f[a]["adopted_by"] = h

\* minutes since the lease of a held record was taken
Age(r, t) == t - fromisoformat(r["adopted_at"])

\* C1: a claim by H2 on an account whose stored record is held by H1 # H2 with
\* a lease not older than the timeout is answered 409 "conflict" with a message
\* naming H1, and the stored record of the account is what it was.
C1_ClaimConflict ==
    \A a \in Names, h1, h2 \in Holders :
        (h1 # h2 /\ ClaimBy(a, h2) /\ HeldIn(req.file, a, h1)
            /\ Age(req.file[a], now) <= UnlockTimeout)
        => /\ resp.code = 409 /\ resp.status = "conflict" /\ resp.message = h1
           /\ Stored(file, a) = Stored(req.file, a)

C1_Witness ==
    /\ ClaimBy("acct1", "vps-2") /\ HeldIn(req.file, "acct1", "vps-1")
    /\ resp.code = 409 /\ resp.message = "vps-1" /\ HeldIn(file, "acct1", "vps-1")

\* C4: whatever request triggers the load, an account whose stored lease is
\* older than the timeout is unleased in the store once the request is answered,
\* an account whose lease is not older keeps its adoption fields (the account the
\* request itself rewrites aside), and a record returned to the caller is the
\* stored one and never a held record older than the timeout.
C4_ExpirySweep ==
    req.op # "none" =>
        /\ \A a \in DOMAIN req.file :
              (req.op \in {"list_accounts", "get_account_details"} \/ a # req.account_name)
              => /\ a \in DOMAIN file
                 /\ IF IsAdopted(req.file[a]) /\ Age(req.file[a], now) > UnlockTimeout
                    THEN Unleased(file[a])
                    ELSE Adoption(file[a]) = Adoption(req.file[a])
        /\ \A r \in resp.account :
              /\ Stored(file, req.account_name) = {r}
              /\ ~(IsAdopted(r) /\ Age(r, now) > UnlockTimeout)

C4_Witness ==
    /\ req.op = "get_account_details" /\ req.account_name = "acct1"
    /\ HeldIn(req.file, "acct1", "vps-1") /\ Age(req.file["acct1"], now) > UnlockTimeout
    /\ \E r \in resp.account : Unleased(r)
    /\ Unleased(file["acct1"])

\* C5: a claim by H2 on an account whose stored record is held by H1 # H2 since
\* t is refused with 409 naming H1 when now - t <= 5, and when now - t > 5 it is
\* answered "claimed" and leaves the account held by H2 since now.
C5_ReclaimAfterTimeout ==
    \A a \in Names, h1, h2 \in Holders :
        (h1 # h2 /\ ClaimBy(a, h2) /\ HeldIn(req.file, a, h1))
        => IF Age(req.file[a], now) <= UnlockTimeout
           THEN resp.code = 409 /\ resp.message = h1
           ELSE /\ resp.code = 200 /\ resp.status = "claimed" /\ resp.adopted_by = h2
                /\ HeldIn(file, a, h2) /\ file[a]["adopted_at"] = isoformat(now)

C5_Witness ==
    /\ ClaimBy("acct1", "vps-2") /\ HeldIn(req.file, "acct1", "vps-1")
    /\ Age(req.file["acct1"], now) = UnlockTimeout + 1
    /\ resp.status = "claimed" /\ HeldIn(file, "acct1", "vps-2")

\* C6 as stated: a claim by the holder of an unexpired lease leaves the stored
\* record exactly as it was.
C6_RefreshesNothing ==
    \A a \in Names, h \in Holders :
        (ClaimBy(a, h) /\ HeldIn(req.file, a, h) /\ Age(req.file[a], now) <= UnlockTimeout)
        => resp.status = "claimed" /\ Stored(file, a) = Stored(req.file, a)

\* C6 amended: a claim by the holder of an unexpired lease is answered "claimed"
\* and leaves the record as it was except for adopted_at, which becomes the
\* time of this claim.
C6_ReclaimRestamps ==
    \A a \in Names, h \in Holders :
        (ClaimBy(a, h) /\ HeldIn(req.file, a, h) /\ Age(req.file[a], now) <= UnlockTimeout)
        => /\ resp.status = "claimed"
           /\ Stored(file, a) = {[req.file[a] EXCEPT !["adopted_at"] = isoformat(now)]}

C6_Witness ==
    /\ ClaimBy("acct1", "vps-1") /\ HeldIn(req.file, "acct1", "vps-1")
    /\ Age(req.file["acct1"], now) = 3
    /\ resp.status = "claimed" /\ file["acct1"]["adopted_at"] = isoformat(now)

C8_ReleaseUnconditional ==
    \A a \in Names :
        (ReleaseOf(a) /\ a \in DOMAIN req.file)
        => /\ resp.code = 200 /\ resp.status = "released" /\ resp.account_name = a
           /\ a \in DOMAIN file /\ Unleased(file[a])
           /\ (Unleased(req.file[a]) => file[a] = req.file[a])

C8_Witness ==
    /\ ReleaseOf("acct1") /\ req.adopted_by = "vps-2"
    /\ HeldIn(req.file, "acct1", "vps-1") /\ Age(req.file["acct1"], now) <= UnlockTimeout
    /\ resp.status = "released" /\ Unleased(file["acct1"])

(* ===================== properties of SpecGrant ========================= *)

\* holders whose grant g[a][h] is less than the timeout old
Effective(g, a) ==
    {h \in Holders : g[a][h] # NoGrant /\ now - g[a][h] < UnlockTimeout}

\* C2 as stated: each account has at most one holder whose successful claim is
\* less than 5 minutes old and who has not itself released the account since.
C2_OneEffectiveHolder ==
    \A a \in Names : Cardinality(Effective(granted, a)) <= 1

\* what the handlers do keep: each account has at most one holder whose
\* successful claim is less than 5 minutes old and has not been followed by a
\* release or an upsertAccount of that account by anyone, and the store names it.
C2_OneStandingHolder ==
    \A a \in Names :
        /\ Cardinality(Effective(standing, a)) <= 1
        /\ \A h \in Effective(standing, a) : HeldIn(file, a, h)

C2_Witness ==
    /\ Effective(standing, "acct1") = {"vps-2"}
    /\ Effective(granted, "acct1") = {"vps-1", "vps-2"}
    /\ HeldIn(file, "acct1", "vps-2")

(* ====================== properties of SpecConc ========================= *)

\* worker p is handling, or has answered, claim(a, h)
Claiming(p, a, h) ==
    /\ procs[p].op = "adopt_account" /\ procs[p].action = "claim"
    /\ procs[p].account_name = a /\ procs[p].adopted_by = h

\* worker p has answered "claimed" to claim(a, h)
Claimed(p, a, h) ==
    /\ Claiming(p, a, h) /\ procs[p].pc = "done"
    /\ procs[p].resp.code = 200 /\ procs[p].resp.status = "claimed"
    /\ procs[p].resp.adopted_by = h

\* no worker is between opening the file for writing and dumping into it
NoWriteInProgress == \A p \in Procs : procs[p].pc # "dump"

\* C3: a claim that passed the conflict check of adopt_account persists a
\* record naming its own holder whatever record set_adoption's reload found,
\* and is then answered "claimed" for that holder; so two claims by different
\* holders that both passed the check both succeed and the later write stands.
C3_ClaimOverwrites ==
    \A p \in Procs, a \in Names, h \in Holders :
        Claiming(p, a, h) =>
            /\ (procs[p].pc \in {"open", "dump"} /\ procs[p].write = "save")
                  => HeldIn(procs[p].accounts, a, h)
            /\ (procs[p].pc = "done" /\ procs[p].resp.code = 200) => Claimed(p, a, h)

\* both claims of acct1 were answered "claimed", the second after its reload
\* had found the account held by the first, and the store names the second only
C3_Witness ==
    /\ Claimed(1, "acct1", "vps-1") /\ Claimed(2, "acct1", "vps-2")
    /\ \E r \in procs[2].found : IsAdopted(r) /\ r["adopted_by"] = "vps-1"
    /\ HeldIn(file, "acct1", "vps-2")
    /\ now = 0

\* adopted = false, adopted_by = null and adopted_at = null go together
AdoptionConsistent(a) ==
    /\ (~IsAdopted(a)) = (Get(a, "adopted_by") = None)
    /\ (~IsAdopted(a)) = (Get(a, "adopted_at") = None)

\* C9: every record of the persisted store has adopted = false exactly when
\* adopted_by is null and exactly when adopted_at is null, in every state the
\* interleaved handlers reach from the empty store.
C9_AdoptionFields ==
    \A a \in DOMAIN file : AdoptionConsistent(file[a])

\* a held record stands in the store while another worker is in the middle of
\* its own write of the whole store
C9_Witness ==
    /\ HeldIn(file, "acct1", "vps-1") /\ AdoptionConsistent(file["acct1"])
    /\ \E p \in Procs : procs[p].pc = "dump"

\* C10: a name whose add_account request has completed is a key of the
\* persisted store in every later state in which no write is in progress.
C10_NeverDeleted ==
    NoWriteInProgress => upserted \subseteq DOMAIN file

(* -------- two accounts with tokens and cached profile lists ------------ *)

\* answers of the provider: 200 with a profile list, or a network failure
Upstreams == {200, 503}

NextProfiles ==
    \/ Tick(3) /\ UNCHANGED granted
    \/ \E n \in Names : get_account_details(n) /\ UNCHANGED granted
    \/ \E n \in Names, a \in Actions :
          adopt_account(n, a, "vps-1") /\ UNCHANGED granted
    \/ \E n \in Names, tok \in Tokens : add_account(n, tok) /\ UNCHANGED granted
    \/ \E n \in Names, u \in Upstreams, ids \in ProfileLists :
          fetch_and_save_profiles(n, u, ids) /\ UNCHANGED granted

SpecProfiles == Init /\ [][NextProfiles]_vars

(* ------------- adopt requests with malformed bodies -------------------- *)

\* values of "action" in a request body: the two actions, another word, absent
ActionInputs == Actions \cup {"renew", None}

\* values of "adopted_by" in a request body: a holder, the empty string, absent
HolderInputs == Holders \cup {"", None}

NextAdopt ==
    \/ Tick(3) /\ UNCHANGED granted
    \/ \E n \in Names : add_account(n, "tok1") /\ UNCHANGED granted
    \/ \E n \in Names, a \in ActionInputs, v \in HolderInputs :
          adopt_account(n, a, v) /\ UNCHANGED granted

SpecAdopt == Init /\ [][NextAdopt]_vars

(* ------ a store left by an earlier version or edited by hand ----------- *)

\* records as the file may hold them before this program first loads it:
\* without the adoption keys (lines 68 and 74-79), and adopted without a
\* timestamp that parses (lines 83-96)
LegacyRecords ==
    { [token |-> "tok1", profiles |-> <<>>],
      [token |-> "tok1", profiles |-> <<>>, adopted |-> TRUE, adopted_by |-> "vps-1"],
      [token |-> "tok1", profiles |-> <<>>, adopted |-> TRUE, adopted_by |-> "vps-1",
       adopted_at |-> None],
      [token |-> "tok1", profiles |-> <<>>, adopted |-> TRUE, adopted_by |-> "vps-1",
       adopted_at |-> "yesterday"],
      [token |-> "tok1", profiles |-> <<>>, adopted |-> TRUE, adopted_by |-> "vps-1",
       adopted_at |-> ""],
      [token |-> "tok1", profiles |-> <<>>, adopted |-> TRUE, adopted_by |-> None,
       adopted_at |-> None] }

LegacyStores ==
    UNION {[S -> LegacyRecords] : S \in SUBSET Names}

InitLegacy ==
    /\ file \in LegacyStores
    /\ now = 0
    /\ req = NoRequest
    /\ resp = NoResponse
    /\ granted = NoGrants
    /\ standing = NoGrants
    /\ procs = [p \in Procs |-> Idle]
    /\ started = 0
    /\ upserted = {}
    /\ bytes = IF file = EmptyStore THEN 0 ELSE StoreLen(file)

NextLegacy ==
    \/ Tick(3) /\ UNCHANGED granted
    \/ list_accounts /\ UNCHANGED granted
    \/ \E n \in Names : get_account_details(n) /\ UNCHANGED granted
    \/ \E n \in Names, a \in Actions, v \in VpsInputs :
          adopt_account(n, a, v) /\ UNCHANGED granted
    \/ \E n \in Names : add_account(n, "tok1") /\ UNCHANGED granted

SpecLegacy == InitLegacy /\ [][NextLegacy]_vars

(* ================== further properties of Spec ========================= *)

\* record r2 has the token and the profiles of record r1
SameData(r1, r2) ==
    /\ Get(r2, "token") = Get(r1, "token")
    /\ Get(r2, "profiles") = Get(r1, "profiles")

\* record r holds a lease taken more than the timeout before t
Expired(r, t) == IsAdopted(r) /\ Age(r, t) > UnlockTimeout

\* in store g account o is what it was in store f, or its lease was older than
\* the timeout at t and is cleared
KeptOrExpired(f, g, o, t) ==
    /\ o \in DOMAIN g
    /\ IF Expired(f[o], t)
       THEN Unleased(g[o]) /\ SameData(f[o], g[o]) /\ DOMAIN g[o] = DOMAIN f[o]
       ELSE g[o] = f[o]

\* C11: a claim or a release addressed to a name that is not in the store is
\* answered 404, the store has no record of that name afterwards, and every
\* record of the store is what it was, a lease older than the timeout cleared.
C11_UnknownAccount ==
    \A a \in Names :
        (req.op = "adopt_account" /\ req.account_name = a
            /\ req.action \in Actions /\ a \notin DOMAIN req.file)
        => /\ resp.code = 404
           /\ DOMAIN file = DOMAIN req.file
           /\ \A o \in DOMAIN req.file : KeptOrExpired(req.file, file, o, now)

\* a release of the unknown acct2 while acct1's lease has run out
C11_Witness ==
    /\ ReleaseOf("acct2") /\ DOMAIN req.file = {"acct1"}
    /\ Expired(req.file["acct1"], now)
    /\ resp.code = 404 /\ DOMAIN file = {"acct1"} /\ Unleased(file["acct1"])

(* ==================== properties of SpecProfiles ======================= *)

\* the request just handled is upsertAccount(x, tok)
UpsertOf(x, tok) ==
    req.op = "add_account" /\ req.account_name = x /\ req.token = tok

\* C12: after upsertAccount(x, tok) the store, and a load of it, has x with
\* token tok, no profiles and no lease, whether x was absent, free with
\* profiles or held; every other account is what it was, a lease older than
\* the timeout cleared.
C12_UpsertRoundTrip ==
    \A x \in Names, tok \in Tokens :
        UpsertOf(x, tok)
        => /\ resp.code = 201
           /\ DOMAIN file = DOMAIN req.file \cup {x}
           /\ file[x] = [token |-> tok, profiles |-> <<>>, adopted |-> FALSE,
                         adopted_by |-> None, adopted_at |-> None]
           /\ get_all_accounts(file, now).accounts[x] = file[x]
           /\ \A o \in DOMAIN req.file \ {x} : KeptOrExpired(req.file, file, o, now)

\* acct1, held within the timeout with profiles cached under another token, is
\* upserted while acct2's lease has run out
C12_Witness ==
    /\ UpsertOf("acct1", "tok2")
    /\ HeldIn(req.file, "acct1", "vps-1") /\ ~Expired(req.file["acct1"], now)
    /\ req.file["acct1"]["token"] = "tok1" /\ req.file["acct1"]["profiles"] = <<"p1">>
    /\ "acct2" \in DOMAIN req.file /\ Expired(req.file["acct2"], now)
    /\ Unleased(file["acct1"]) /\ file["acct1"]["token"] = "tok2"
    /\ Unleased(file["acct2"])

\* the request just handled called setProfiles(n, ids): the account was found
\* and the provider answered with the list ids
SetProfilesOf(n, ids) ==
    /\ req.op = "fetch_and_save_profiles" /\ req.account_name = n
    /\ req.profile_ids = ids /\ resp.code = 200

\* what setProfiles does to the account it addresses
ProfilesReplaced(n, ids) ==
    /\ n \in DOMAIN file
    /\ file[n]["profiles"] = ids
    /\ file[n]["token"] = req.file[n]["token"]
    /\ DOMAIN file[n] = DOMAIN req.file[n]
    /\ ~Expired(req.file[n], now) => Adoption(file[n]) = Adoption(req.file[n])

\* C14 as stated: setProfiles(n, ids) on an existing account replaces its
\* profiles by ids, keeps its token and the adoption fields of an unexpired
\* lease, and leaves every other record as it was; on a name that is not in the
\* store it creates no record and leaves every record as it was.
C14_SetProfilesFrame ==
    /\ \A n \in Names, ids \in ProfileLists :
          SetProfilesOf(n, ids)
          => /\ ProfilesReplaced(n, ids)
             /\ DOMAIN file = DOMAIN req.file
             /\ \A o \in DOMAIN req.file \ {n} : file[o] = req.file[o]
    /\ \A n \in Names \ DOMAIN file, ids \in ProfileLists :
          update_account_profiles(file, now, n, ids) = file

\* C14 amended: the same, except that a lease older than the timeout, of the
\* addressed account or of any other, is cleared by the load.
C14_SetProfilesFrameExpiry ==
    /\ \A n \in Names, ids \in ProfileLists :
          SetProfilesOf(n, ids)
          => /\ ProfilesReplaced(n, ids)
             /\ Expired(req.file[n], now) => Unleased(file[n])
             /\ DOMAIN file = DOMAIN req.file
             /\ \A o \in DOMAIN req.file \ {n} : KeptOrExpired(req.file, file, o, now)
    /\ \A n \in Names \ DOMAIN file, ids \in ProfileLists :
          /\ DOMAIN update_account_profiles(file, now, n, ids) = DOMAIN file
          /\ \A o \in DOMAIN file :
                KeptOrExpired(file, update_account_profiles(file, now, n, ids), o, now)

\* acct1, held within the timeout, gets a profile list while acct2's lease has
\* run out
C14_Witness ==
    /\ SetProfilesOf("acct1", <<"p1">>)
    /\ HeldIn(req.file, "acct1", "vps-1") /\ ~Expired(req.file["acct1"], now)
    /\ req.file["acct1"]["profiles"] = <<>>
    /\ "acct2" \in DOMAIN req.file /\ Expired(req.file["acct2"], now)
    /\ HeldIn(file, "acct1", "vps-1") /\ file["acct1"]["profiles"] = <<"p1">>
    /\ Unleased(file["acct2"])

(* ===================== properties of SpecLegacy ======================== *)

AdoptionKeys == {"adopted", "adopted_by", "adopted_at"}

\* the request just handled only read: GET /accounts or GET /accounts/<name>
ReadOnly == req.op \in {"list_accounts", "get_account_details"}

\* record r holds a lease whose timestamp parses and is older than the timeout at t
Overdue(r, t) ==
    /\ "adopted" \in DOMAIN r /\ r["adopted"] = TRUE
    /\ "adopted_at" \in DOMAIN r
    /\ \E u \in 0..MaxTime : r["adopted_at"] = isoformat(u) /\ t - u > UnlockTimeout

\* C13: a load gives every record that lacks the three adoption keys the
\* values false, null, null and persists it; a second load at the same clock
\* returns the mapping the first one returned and writes nothing; and a load
\* rewrites the store exactly when some record lacked a key or held a lease
\* older than the timeout.
C13_BackfillIdempotent ==
    ReadOnly =>
        /\ \A o \in DOMAIN req.file :
              DOMAIN req.file[o] \cap AdoptionKeys = {}
              => /\ o \in DOMAIN file
                 /\ DOMAIN file[o] = DOMAIN req.file[o] \cup AdoptionKeys
                 /\ file[o]["adopted"] = FALSE
                 /\ file[o]["adopted_by"] = None /\ file[o]["adopted_at"] = None
                 /\ SameData(req.file[o], file[o])
        /\ \A r \in resp.account : Stored(file, req.account_name) = {r}
        /\ resp.names \in {{}, DOMAIN file}
        /\ get_all_accounts(file, now) = [accounts |-> file, file |-> file]
        /\ (file # req.file) =
              (\E o \in DOMAIN req.file :
                  \/ ~(AdoptionKeys \subseteq DOMAIN req.file[o])
                  \/ Overdue(req.file[o], now))

\* a record without adoption keys was read, returned unleased and persisted so
C13_Witness ==
    /\ req.op = "get_account_details" /\ req.account_name = "acct1"
    /\ "acct1" \in DOMAIN req.file
    /\ DOMAIN req.file["acct1"] = {"token", "profiles"}
    /\ resp.code = 200 /\ resp.account = {file["acct1"]}
    /\ file["acct1"] = [token |-> "tok1", profiles |-> <<>>, adopted |-> FALSE,
                        adopted_by |-> None, adopted_at |-> None]

(* ====================== properties of SpecFault ======================== *)

\* in this step worker p's write failed: it was about to open the file and
\* has gone on without reaching the dump
WriteFailed(p) == procs[p].pc = "open" /\ procs'[p].pc \notin {"open", "dump"}

\* C15: when the write of a claim, release, upsertAccount or setProfiles fails
\* with an I/O error, the persisted store is what it was before, and the
\* operation still answers success.
C15_PersistFailure ==
    [][\A p \in Procs :
          (WriteFailed(p) /\ procs[p].write = "save")
          => /\ file' = file
             /\ procs'[p].pc = "done" /\ procs'[p].resp.code \in {200, 201}]_vars

(* ====================== properties of SpecAdopt ======================== *)

\* the request just handled is an adopt request on account a
AdoptOf(a) == req.op = "adopt_account" /\ req.account_name = a

\* the body's adopted_by is absent or empty
NoHolder == req.adopted_by \in {None, ""}

\* the first three steps of the precedence: a bad action is answered 400 and
\* the store is not touched, even where a load would clear a lease; otherwise
\* an unknown account is answered 404; and 409 is answered only to a claim
\* that names a holder, on a known account held by another
Precedence(a) ==
    /\ req.action \notin Actions => resp.code = 400 /\ file = req.file
    /\ (req.action \in Actions /\ a \notin DOMAIN req.file) => resp.code = 404
    /\ (req.action = "claim" /\ a \in DOMAIN req.file /\ NoHolder) => resp.code = 400
    /\ resp.code = 409
          => /\ req.action = "claim" /\ a \in DOMAIN req.file /\ ~NoHolder
             /\ IsAdopted(req.file[a]) /\ req.file[a]["adopted_by"] # req.adopted_by

\* C16 as stated: the precedence above, and a claim without holder on a known
\* account leaves its adoption fields as they were, free or held.
C16_ErrorPrecedence ==
    \A a \in Names :
        AdoptOf(a)
        => /\ Precedence(a)
           /\ (req.action = "claim" /\ a \in DOMAIN req.file /\ NoHolder)
                 => Adoption(file[a]) = Adoption(req.file[a])

\* C16 amended: the precedence above, and a claim without holder on a known
\* account leaves its adoption fields as they were unless its lease is older
\* than the timeout, which the load clears.
C16_ErrorPrecedenceExpiry ==
    \A a \in Names :
        AdoptOf(a)
        => /\ Precedence(a)
           /\ (req.action = "claim" /\ a \in DOMAIN req.file /\ NoHolder)
                 => KeptOrExpired(req.file, file, a, now)

\* a claim with an empty adopted_by on an account held within the timeout
C16_Witness ==
    /\ AdoptOf("acct1") /\ req.action = "claim" /\ req.adopted_by = ""
    /\ HeldIn(req.file, "acct1", "vps-1") /\ ~Expired(req.file["acct1"], now)
    /\ resp.code = 400 /\ file["acct1"] = req.file["acct1"]

(* ================= further properties of SpecConc ====================== *)

\* worker q has answered a request that is not addressed to account a, or
\* that only reads
Bystander(q, a) ==
    /\ procs[q].pc = "done"
    /\ \/ procs[q].op = "get_account_details"
       \/ procs[q].op \in {"adopt_account", "add_account", "fetch_and_save_profiles"}
          /\ procs[q].account_name # a

\* C17: once claim(a, h) has been answered "claimed", and the other worker's
\* request on another account, or its read, has been answered too, with no
\* write in progress and no time gone by, the store has a held by h.
C17_CrossAccountIsolation ==
    \A p, q \in Procs, a \in Names, h \in Holders :
        (p # q /\ Claimed(p, a, h) /\ Bystander(q, a) /\ now = 0)
        => HeldIn(file, a, h)

(* ================ further properties of SpecLegacy ===================== *)

\* record r is adopted and its adopted_at is missing, null, empty or does not parse
Unusable(r) ==
    /\ "adopted" \in DOMAIN r /\ r["adopted"] = TRUE
    /\ \/ "adopted_at" \notin DOMAIN r
       \/ \A u \in 0..MaxTime : r["adopted_at"] # isoformat(u)

\* the request just handled is one that resets account a, or re-stamps its
\* lease: a release or an upsert of a, or a claim of a by its recorded holder
Resets(a) ==
    /\ req.account_name = a
    /\ \/ req.op = "add_account"
       \/ ReleaseOf(a)
       \/ req.op = "adopt_account" /\ req.action = "claim"
          /\ req.adopted_by = Get(req.file[a], "adopted_by")

\* C18: a record that is adopted without a usable timestamp stays as it is,
\* adopted by the same holder, through every request at any time, but for the
\* backfill of a missing key and unless a release, an upsert or a claim by its
\* own holder addresses it; a load returns it adopted; and a claim by any other
\* holder, also when adopted_by is null, is answered 409 naming adopted_by.
C18_NoTimestampNoExpiry ==
    \A a \in DOMAIN req.file :
        (req.op # "none" /\ Unusable(req.file[a]))
        => /\ ~Resets(a)
                => /\ a \in DOMAIN file
                   /\ \A k \in DOMAIN req.file[a] : file[a][k] = req.file[a][k]
                   /\ Adoption(file[a]) = Adoption(req.file[a])
                   /\ Unusable(file[a])
           /\ (req.op = "get_account_details" /\ req.account_name = a)
                => resp.account = {file[a]}
           /\ \A h \in Holders :
                (ClaimBy(a, h) /\ h # Get(req.file[a], "adopted_by"))
                => /\ resp.code = 409 /\ resp.status = "conflict"
                   /\ resp.message = Get(req.file[a], "adopted_by")
           /\ (ReleaseOf(a) \/ (req.op = "add_account" /\ req.account_name = a))
                => Unleased(file[a])

\* after six minutes a claim by vps-2 on an account adopted by nobody, with no
\* timestamp, is refused
C18_Witness ==
    /\ now = MaxTime
    /\ ClaimBy("acct1", "vps-2") /\ "acct1" \in DOMAIN req.file
    /\ IsAdopted(req.file["acct1"])
    /\ Get(req.file["acct1"], "adopted_by") = None
    /\ Get(req.file["acct1"], "adopted_at") = None
    /\ resp.code = 409 /\ resp.message = None
    /\ IsAdopted(file["acct1"]) /\ file["acct1"]["adopted_by"] = None

====
